---------------------------- MODULE Spec2Model ----------------------------
(***************************************************************************)
(* Model of src/flight_parser.py: the row validator, the CSV ingestor, the *)
(* query matcher and the query runner.                                     *)
(*                                                                         *)
(* Text is modelled as sequences of characters, a character being a        *)
(* one-character string ("A", "1", ",").  Two atoms stand for characters   *)
(* that cannot be written in ASCII: "U+4E2D" (a CJK ideograph: alphabetic, *)
(* neither upper nor lower case) and "U+00E9" (e acute: a lower-case       *)
(* letter outside ASCII).                                                  *)
(***************************************************************************)
EXTENDS Integers, Sequences, FiniteSets, TLC

(***************************************************************************)
(* Characters and the str methods the program uses.                        *)
(***************************************************************************)
Digits == {"0", "1", "2", "3", "4", "5", "6", "7", "8", "9"}

NonZeroDigits == Digits \ {"0"}

UpperChars ==
    {"A", "B", "C", "D", "E", "F", "G", "H", "I", "J", "K", "L", "M",
     "N", "O", "P", "Q", "R", "S", "T", "U", "V", "W", "X", "Y", "Z"}

LowerChars ==
    {"a", "b", "c", "d", "e", "f", "g", "h", "i", "j", "k", "l", "m",
     "n", "o", "p", "q", "r", "s", "t", "u", "v", "w", "x", "y", "z",
     "U+00E9"}

UncasedAlpha == {"U+4E2D"}

AlphaChars == UpperChars \cup LowerChars \cup UncasedAlpha

Whitespace == {" ", "\t", "\r", "\n"}

\* str.lower() on one character.
LowerChar(c) ==
    CASE c = "A" -> "a" [] c = "B" -> "b" [] c = "C" -> "c" [] c = "D" -> "d"
      [] c = "E" -> "e" [] c = "F" -> "f" [] c = "G" -> "g" [] c = "H" -> "h"
      [] c = "I" -> "i" [] c = "J" -> "j" [] c = "K" -> "k" [] c = "L" -> "l"
      [] c = "M" -> "m" [] c = "N" -> "n" [] c = "O" -> "o" [] c = "P" -> "p"
      [] c = "Q" -> "q" [] c = "R" -> "r" [] c = "S" -> "s" [] c = "T" -> "t"
      [] c = "U" -> "u" [] c = "V" -> "v" [] c = "W" -> "w" [] c = "X" -> "x"
      [] c = "Y" -> "y" [] c = "Z" -> "z" [] OTHER -> c

\* str.lower()
Lower(s) == [i \in 1..Len(s) |-> LowerChar(s[i])]

\* str.isalnum(): non-empty, every character a letter or a digit.
IsAlnum(s) == Len(s) > 0 /\ \A i \in 1..Len(s) : s[i] \in AlphaChars \cup Digits

\* str.isalpha(): non-empty, every character a letter.
IsAlpha(s) == Len(s) > 0 /\ \A i \in 1..Len(s) : s[i] \in AlphaChars

\* str.isupper(): no lower-case character and at least one upper-case one.
IsUpper(s) ==
    /\ \A i \in 1..Len(s) : s[i] \notin LowerChars
    /\ \E i \in 1..Len(s) : s[i] \in UpperChars

\* str.startswith(prefix)
StartsWith(s, prefix) ==
    Len(s) >= Len(prefix) /\ SubSeq(s, 1, Len(prefix)) = prefix

\* str.endswith(suffix)
EndsWith(s, suffix) ==
    Len(s) >= Len(suffix)
        /\ SubSeq(s, Len(s) - Len(suffix) + 1, Len(s)) = suffix

\* The least index j >= i of s with s[j] in set, or 0 when there is none.
FirstIn(s, i, set) ==
    IF \E j \in i..Len(s) : s[j] \in set
    THEN CHOOSE j \in i..Len(s) :
            s[j] \in set /\ \A k \in i..(j - 1) : s[k] \notin set
    ELSE 0

\* The least index j >= i of s with s[j] outside set, or 0 when there is none.
FirstNotIn(s, i, set) ==
    IF \E j \in i..Len(s) : s[j] \notin set
    THEN CHOOSE j \in i..Len(s) :
            s[j] \notin set /\ \A k \in i..(j - 1) : s[k] \in set
    ELSE 0

\* The greatest index of s with s[j] outside set, or 0 when there is none.
LastNotIn(s, set) ==
    IF \E j \in 1..Len(s) : s[j] \notin set
    THEN CHOOSE j \in 1..Len(s) :
            s[j] \notin set /\ \A k \in (j + 1)..Len(s) : s[k] \in set
    ELSE 0

\* str.strip(): leading and trailing whitespace removed.
Strip(s) ==
    LET a == FirstNotIn(s, 1, Whitespace)
        b == LastNotIn(s, Whitespace)
    IN  IF a = 0 THEN << >> ELSE SubSeq(s, a, b)

\* str.split(sep) for a one-character separator: always at least one field.
RECURSIVE Split(_, _)
Split(s, sep) ==
    LET k == FirstIn(s, 1, {sep})
    IN  IF k = 0 THEN << s >>
        ELSE << SubSeq(s, 1, k - 1) >> \o Split(SubSeq(s, k + 1, Len(s)), sep)

(***************************************************************************)
(* datetime.strptime(s, "%Y-%m-%d %H:%M").  _strptime compiles the format  *)
(* to the regular expression                                               *)
(*   (\d\d\d\d)-(1[0-2]|0[1-9]|[1-9])-(3[0-1]|[1-2]\d|0[1-9]|[1-9]| [1-9]) *)
(*   \s+(2[0-3]|[0-1]\d|\d):([0-5]\d|\d)                                   *)
(* which must match the whole string; then the date must exist.            *)
(***************************************************************************)
DigitVal(c) ==
    CASE c = "0" -> 0 [] c = "1" -> 1 [] c = "2" -> 2 [] c = "3" -> 3
      [] c = "4" -> 4 [] c = "5" -> 5 [] c = "6" -> 6 [] c = "7" -> 7
      [] c = "8" -> 8 [] c = "9" -> 9

\* int() of a sequence of digits.
RECURSIVE DigitsVal(_)
DigitsVal(t) ==
    IF t = << >> THEN 0
    ELSE 10 * DigitsVal(SubSeq(t, 1, Len(t) - 1)) + DigitVal(t[Len(t)])

\* %m: 1[0-2]|0[1-9]|[1-9]
MonthTok(t) ==
    \/ Len(t) = 2 /\ t[1] = "1" /\ t[2] \in {"0", "1", "2"}
    \/ Len(t) = 2 /\ t[1] = "0" /\ t[2] \in NonZeroDigits
    \/ Len(t) = 1 /\ t[1] \in NonZeroDigits

\* %d without its space-padded alternative: 3[0-1]|[1-2]\d|0[1-9]|[1-9]
DayTok(t) ==
    \/ Len(t) = 2 /\ t[1] = "3" /\ t[2] \in {"0", "1"}
    \/ Len(t) = 2 /\ t[1] \in {"1", "2"} /\ t[2] \in Digits
    \/ Len(t) = 2 /\ t[1] = "0" /\ t[2] \in NonZeroDigits
    \/ Len(t) = 1 /\ t[1] \in NonZeroDigits

\* %H: 2[0-3]|[0-1]\d|\d
HourTok(t) ==
    \/ Len(t) = 2 /\ t[1] = "2" /\ t[2] \in {"0", "1", "2", "3"}
    \/ Len(t) = 2 /\ t[1] \in {"0", "1"} /\ t[2] \in Digits
    \/ Len(t) = 1 /\ t[1] \in Digits

\* %M: [0-5]\d|\d
MinuteTok(t) ==
    \/ Len(t) = 2 /\ t[1] \in {"0", "1", "2", "3", "4", "5"} /\ t[2] \in Digits
    \/ Len(t) = 1 /\ t[1] \in Digits

IsLeap(y) == (y % 4 = 0 /\ y % 100 # 0) \/ y % 400 = 0

DaysInMonth(y, m) ==
    IF m = 2 THEN (IF IsLeap(y) THEN 29 ELSE 28)
    ELSE IF m \in {4, 6, 9, 11} THEN 30 ELSE 31

\* None, as the result of a failed parse.
NoDatetime == [ok |-> FALSE, y |-> 0, mo |-> 0, d |-> 0, h |-> 0, mi |-> 0]

\* The date and time read, if the date exists (year 0 and February 30 do not).
MakeDatetime(y, mo, d, h, mi) ==
    IF y >= 1 /\ d <= DaysInMonth(y, mo)
    THEN [ok |-> TRUE, y |-> y, mo |-> mo, d |-> d, h |-> h, mi |-> mi]
    ELSE NoDatetime

\* The match from the hour on: the hour is s[h0..c-1], c the colon after it,
\* and the minute is the rest of the string.
StrptimeClock(s, h2, d0, w, h0, c) ==
    IF /\ h0 # 0
       /\ c # 0
       /\ HourTok(SubSeq(s, h0, c - 1))
       /\ MinuteTok(SubSeq(s, c + 1, Len(s)))
    THEN MakeDatetime(DigitsVal(SubSeq(s, 1, 4)),
                      DigitsVal(SubSeq(s, 6, h2 - 1)),
                      DigitsVal(SubSeq(s, d0, w - 1)),
                      DigitsVal(SubSeq(s, h0, c - 1)),
                      DigitsVal(SubSeq(s, c + 1, Len(s))))
    ELSE NoDatetime

\* The match from the day on: the day is s[d0..w-1], and s[w] starts the
\* whitespace before the hour.
StrptimeDay(s, h2, d0, w) ==
    IF /\ w # 0 /\ w <= Len(s)
       /\ s[w] \in Whitespace
       /\ DayTok(SubSeq(s, d0, w - 1))
    THEN StrptimeClock(s, h2, d0, w, FirstNotIn(s, w, Whitespace),
                       FirstIn(s, FirstNotIn(s, w, Whitespace), {":"}))
    ELSE NoDatetime

\* The match from the month on: h2 is the hyphen after the month.  A space
\* right after it selects the day's alternative " [1-9]".
StrptimeMonth(s, h2) ==
    IF h2 # 0 /\ MonthTok(SubSeq(s, 6, h2 - 1))
    THEN IF h2 + 1 <= Len(s) /\ s[h2 + 1] = " "
         THEN StrptimeDay(s, h2, h2 + 2, h2 + 3)
         ELSE StrptimeDay(s, h2, h2 + 1, FirstIn(s, h2 + 1, Whitespace))
    ELSE NoDatetime

\* datetime.strptime(s, "%Y-%m-%d %H:%M"); ok = FALSE stands for ValueError.
Strptime(s) ==
    IF /\ Len(s) >= 5
       /\ \A i \in 1..4 : s[i] \in Digits
       /\ s[5] = "-"
    THEN StrptimeMonth(s, FirstIn(s, 6, {"-"}))
    ELSE NoDatetime

\* a < b on parsed datetimes.
DtLess(a, b) ==
    \/ a.y < b.y
    \/ a.y = b.y /\ a.mo < b.mo
    \/ a.y = b.y /\ a.mo = b.mo /\ a.d < b.d
    \/ a.y = b.y /\ a.mo = b.mo /\ a.d = b.d /\ a.h < b.h
    \/ a.y = b.y /\ a.mo = b.mo /\ a.d = b.d /\ a.h = b.h /\ a.mi < b.mi

\* a <= b on parsed datetimes.
DtLeq(a, b) == ~DtLess(b, a)

(***************************************************************************)
(* Floating-point numbers.  A float is nan, +-inf, or a finite value       *)
(* (-1)^neg * m * 10^e with m without trailing zeros (m = 0 = e for zero). *)
(* Decimal literals of at most nine significant digits denote             *)
(* distinct doubles in the normal range, so equality and order of these    *)
(* values are those of the doubles float() returns; the overflow and       *)
(* underflow thresholds are those of IEEE 754 binary64 (subnormal rounding *)
(* is not modelled).                                                       *)
(***************************************************************************)
RECURSIVE Pow10(_)
Pow10(k) == IF k <= 0 THEN 1 ELSE 10 * Pow10(k - 1)

\* The number of decimal digits of a natural number (1 for 0).
RECURSIVE NumDigits(_)
NumDigits(m) == IF m < 10 THEN 1 ELSE 1 + NumDigits(m \div 10)

NaN == [k |-> "nan", neg |-> FALSE, m |-> 0, e |-> 0]

Inf(neg) == [k |-> "inf", neg |-> neg, m |-> 0, e |-> 0]

\* float() raised ValueError or TypeError.
NoFloat == [k |-> "err", neg |-> FALSE, m |-> 0, e |-> 0]

\* m * 10^e with the trailing zeros of m moved into e.
RECURSIVE Normalise(_, _, _)
Normalise(neg, m, e) ==
    IF m = 0 THEN [k |-> "num", neg |-> neg, m |-> 0, e |-> 0]
    ELSE IF m % 10 = 0 THEN Normalise(neg, m \div 10, e + 1)
    ELSE [k |-> "num", neg |-> neg, m |-> m, e |-> e]

\* m scaled to nine digits: its leading digits, as a number.
Lead(m) == m * Pow10(9 - NumDigits(m))

\* A finite decimal value v rounded to binary64: huge values become inf,
\* tiny ones 0.  The largest double is 1.7976931348623157e308 and the least
\* positive one 4.9406564584124654e-324 (half of it rounds to 0).  The order
\* of v is its number of digits before the decimal point.
Clamp(v, order) ==
    IF v.m = 0 THEN v
    ELSE IF order > 309 \/ (order = 309 /\ Lead(v.m) >= 179769314)
         THEN Inf(v.neg)
    ELSE IF order < -323 \/ (order = -323 /\ Lead(v.m) <= 247032822)
         THEN Normalise(v.neg, 0, 0)
    ELSE v

RoundToDouble(v) == Clamp(v, NumDigits(v.m) + v.e)

\* A digitpart of the float grammar: digits, single underscores between them.
IsDigitPart(t) ==
    /\ Len(t) > 0
    /\ t[1] \in Digits /\ t[Len(t)] \in Digits
    /\ \A i \in 1..Len(t) : t[i] \in Digits \cup {"_"}
    /\ \A i \in 1..(Len(t) - 1) : ~(t[i] = "_" /\ t[i + 1] = "_")

\* The digits of a digitpart.
OnlyDigits(t) == SelectSeq(t, LAMBDA c : c \in Digits)

\* The value of the digits ds, nfrac of them after the point, times 10^ev.
\* Trailing zeros go to the exponent before the digits are read.
DecimalValue(neg, ds, sig, nfrac, ev) ==
    RoundToDouble(Normalise(neg, DigitsVal(SubSeq(ds, 1, sig)),
                            ev - nfrac + (Len(ds) - sig)))

\* ip "." fp "e" ed, each part already cut out (ed after its sign).
ParseParts(neg, ip, fp, hasExp, eneg, ed) ==
    IF /\ ip = << >> \/ IsDigitPart(ip)
       /\ fp = << >> \/ IsDigitPart(fp)
       /\ ip # << >> \/ fp # << >>
       /\ ~hasExp \/ IsDigitPart(ed)
    THEN DecimalValue(neg, OnlyDigits(ip) \o OnlyDigits(fp),
                      LastNotIn(OnlyDigits(ip) \o OnlyDigits(fp), {"0"}),
                      Len(OnlyDigits(fp)),
                      IF ~hasExp THEN 0
                      ELSE IF eneg THEN 0 - DigitsVal(OnlyDigits(ed))
                      ELSE DigitsVal(OnlyDigits(ed)))
    ELSE NoFloat

\* mp is the mantissa with its point at dot (0: none), ep the exponent.
ParseMantissa(neg, mp, dot, hasExp, ep) ==
    ParseParts(neg,
               IF dot = 0 THEN mp ELSE SubSeq(mp, 1, dot - 1),
               IF dot = 0 THEN << >> ELSE SubSeq(mp, dot + 1, Len(mp)),
               hasExp,
               Len(ep) > 0 /\ ep[1] = "-",
               IF Len(ep) > 0 /\ ep[1] \in {"+", "-"}
               THEN SubSeq(ep, 2, Len(ep)) ELSE ep)

\* u is the text after the sign, x the place of its "e" or "E" (0: none).
ParseDecimal(neg, u, x) ==
    ParseMantissa(neg,
                  IF x = 0 THEN u ELSE SubSeq(u, 1, x - 1),
                  FirstIn(IF x = 0 THEN u ELSE SubSeq(u, 1, x - 1), 1, {"."}),
                  x # 0,
                  IF x = 0 THEN << >> ELSE SubSeq(u, x + 1, Len(u)))

ParseUnsigned(neg, u) ==
    IF Lower(u) \in {<<"i", "n", "f">>,
                     <<"i", "n", "f", "i", "n", "i", "t", "y">>}
    THEN Inf(neg)
    ELSE IF Lower(u) = <<"n", "a", "n">> THEN NaN
    ELSE ParseDecimal(neg, u, FirstIn(u, 1, {"e", "E"}))

\* float(s) for a string s: optional whitespace around
\*   [sign] ( "inf" | "infinity" | "nan" | decimal [exponent] )
\* letters in any case; NoFloat stands for ValueError.
ParseStripped(t) ==
    ParseUnsigned(Len(t) > 0 /\ t[1] = "-",
                  IF Len(t) > 0 /\ t[1] \in {"+", "-"}
                  THEN SubSeq(t, 2, Len(t)) ELSE t)

ParseFloat(s) == ParseStripped(Strip(s))

\* |a| < |b| for finite a and b.
MagLess(a, b) ==
    LET oa == NumDigits(a.m) + a.e
        ob == NumDigits(b.m) + b.e
    IN  IF b.m = 0 THEN FALSE
        ELSE IF a.m = 0 THEN TRUE
        ELSE IF oa # ob THEN oa < ob
        ELSE Lead(a.m) < Lead(b.m)

\* a < b on floats: false as soon as either is nan.
FloatLess(a, b) ==
    IF a.k = "nan" \/ b.k = "nan" THEN FALSE
    ELSE IF a.k = "inf" THEN a.neg /\ ~(b.k = "inf" /\ b.neg)
    ELSE IF b.k = "inf" THEN ~b.neg
    ELSE IF a.m = 0 /\ b.m = 0 THEN FALSE
    ELSE IF a.neg # b.neg THEN a.neg
    ELSE IF a.neg THEN MagLess(b, a)
    ELSE MagLess(a, b)

\* a == b on floats: nan equals nothing, -0.0 equals 0.0.
FloatEq(a, b) ==
    /\ a.k # "nan" /\ b.k # "nan"
    /\ a.k = b.k
    /\ a.m = b.m /\ a.e = b.e
    /\ a.neg = b.neg \/ (a.k = "num" /\ a.m = 0)

Zero == Normalise(FALSE, 0, 0)

\* str() of a natural number.
RECURSIVE NatStr(_)
NatStr(n) ==
    LET d == <<"0", "1", "2", "3", "4", "5", "6", "7", "8", "9">>[(n % 10) + 1]
    IN  IF n < 10 THEN << d >> ELSE NatStr(n \div 10) \o << d >>

\* str() of an int.
IntStr(n) == IF n < 0 THEN << "-" >> \o NatStr(0 - n) ELSE NatStr(n)

Zeros(k) == [i \in 1..k |-> "0"]

\* The digits ds of a finite non-zero float times 10^e, x its decimal
\* exponent in scientific notation (d.ddd * 10^x) and xs the digits of |x|.
FiniteStr(sign, ds, e, x, xs) ==
    IF x < -4 \/ x >= 16
    THEN sign \o << ds[1] >>
           \o (IF Len(ds) > 1 THEN << "." >> \o Tail(ds) ELSE << >>)
           \o << "e" >> \o (IF x < 0 THEN << "-" >> ELSE << "+" >>)
           \o (IF Len(xs) < 2 THEN << "0" >> ELSE << >>) \o xs
    ELSE IF e >= 0 THEN sign \o ds \o Zeros(e) \o <<".", "0">>
    ELSE IF x >= 0
         THEN sign \o SubSeq(ds, 1, x + 1) \o << "." >>
                \o SubSeq(ds, x + 2, Len(ds))
    ELSE sign \o <<"0", ".">> \o Zeros(0 - (x + 1)) \o ds

\* str() of a float (its repr): the shortest digits that read back as the
\* same float, in fixed notation for decimal exponents -4..15 and in
\* scientific notation outside.
FloatStr(v) ==
    IF v.k = "nan" THEN <<"n", "a", "n">>
    ELSE IF v.k = "inf"
         THEN (IF v.neg THEN << "-" >> ELSE << >>) \o <<"i", "n", "f">>
    ELSE IF v.m = 0
         THEN (IF v.neg THEN << "-" >> ELSE << >>) \o <<"0", ".", "0">>
    ELSE FiniteStr(IF v.neg THEN << "-" >> ELSE << >>,
                   NatStr(v.m), v.e,
                   NumDigits(v.m) + v.e - 1,
                   NatStr(IF NumDigits(v.m) + v.e - 1 < 0
                          THEN 0 - (NumDigits(v.m) + v.e - 1)
                          ELSE NumDigits(v.m) + v.e - 1))

(***************************************************************************)
(* Values of a flight or query dict, as json.load returns them and as the  *)
(* validator builds them: a string, a float, an int or None.               *)
(***************************************************************************)
JStr(s) == [t |-> "str", s |-> s, f |-> NoFloat, i |-> 0]

JFloat(v) == [t |-> "float", s |-> << >>, f |-> v, i |-> 0]

JInt(n) == [t |-> "int", s |-> << >>, f |-> NoFloat, i |-> n]

\* None: also what dict.get returns for a missing key.
JNone == [t |-> "none", s |-> << >>, f |-> NoFloat, i |-> 0]

\* The empty dict {}.
EmptyDict == [key \in {} |-> JNone]

\* dict.get(key)
Get(dict, key) == IF key \in DOMAIN dict THEN dict[key] ELSE JNone

(***************************************************************************)
(* validate_flight_row                                                     *)
(***************************************************************************)
\* Lines 31-42: one defect for each blank field, in field order.
PresenceErrors(f) ==
    (IF f[1] = << >> THEN << "missing flight_id field" >> ELSE << >>)
    \o (IF f[2] = << >> THEN << "missing origin field" >> ELSE << >>)
    \o (IF f[3] = << >> THEN << "missing destination field" >> ELSE << >>)
    \o (IF f[4] = << >> THEN << "missing departure_datetime field" >> ELSE << >>)
    \o (IF f[5] = << >> THEN << "missing arrival_datetime field" >> ELSE << >>)
    \o (IF f[6] = << >> THEN << "missing price field" >> ELSE << >>)

\* Lines 49-53: flight_id is 2 to 8 alphanumeric characters.
FlightIdErrors(flight_id) ==
    IF ~(2 <= Len(flight_id) /\ Len(flight_id) <= 8) \/ ~IsAlnum(flight_id)
    THEN IF Len(flight_id) > 8
         THEN << "flight_id too long (more than 8 characters)" >>
         ELSE << "flight_id must be 2-8 alphanumeric characters" >>  \* en dash
    ELSE << >>

\* CodeOk without its case test.
CodeOk_AnyCase(code) == Len(code) = 3 /\ IsAlpha(code)

\* Lines 56 and 58: the test on an airport code.
CodeOk(code) == Len(code) = 3 /\ IsAlpha(code) /\ IsUpper(code)

\* Lines 62-75: both datetimes parse and arrival is after departure.
DatetimeDefects(dep_dt, arr_dt) ==
    (IF ~dep_dt.ok THEN << "invalid departure datetime" >> ELSE << >>)
    \o (IF ~arr_dt.ok THEN << "invalid arrival datetime" >> ELSE << >>)
    \o (IF dep_dt.ok /\ arr_dt.ok /\ DtLeq(arr_dt, dep_dt)
        THEN << "arrival before departure" >> ELSE << >>)

DatetimeErrors(dep_str, arr_str) ==
    DatetimeDefects(Strptime(dep_str), Strptime(arr_str))

\* Lines 78-86: the price is a float, not negative, not zero.
PriceDefects(price_val) ==
    IF price_val.k = "err" THEN << "invalid price value" >>
    ELSE IF FloatLess(price_val, Zero) THEN << "negative price value" >>
    ELSE IF FloatEq(price_val, Zero) THEN << "non-positive price value" >>
    ELSE << >>

PriceErrors(price_str) == PriceDefects(ParseFloat(price_str))

\* FormatErrors stopping at the first check that fails.
FormatErrors_FirstOnly(f) ==
    IF FlightIdErrors(f[1]) # << >> THEN FlightIdErrors(f[1])
    ELSE IF ~CodeOk(f[2]) THEN << "invalid origin code" >>
    ELSE IF ~CodeOk(f[3]) THEN << "invalid destination code" >>
    ELSE IF DatetimeErrors(f[4], f[5]) # << >>
         THEN << DatetimeErrors(f[4], f[5])[1] >>
    ELSE PriceErrors(f[6])

\* Lines 48-86: the format defects, accumulated in the order of the checks.
FormatErrors(f) ==
    FlightIdErrors(f[1])
    \o (IF ~CodeOk(f[2]) THEN << "invalid origin code" >> ELSE << >>)
    \o (IF ~CodeOk(f[3]) THEN << "invalid destination code" >> ELSE << >>)
    \o DatetimeErrors(f[4], f[5])
    \o PriceErrors(f[6])

Invalid(errors) == [is_valid |-> FALSE, flight |-> EmptyDict, errors |-> errors]

\* Lines 88-99: the defects, or the record when there is none.
Verdict(f, errors) ==
    IF errors # << >> THEN Invalid(errors)
    ELSE [is_valid |-> TRUE,
          flight |-> [flight_id |-> JStr(f[1]),
                      origin |-> JStr(f[2]),
                      destination |-> JStr(f[3]),
                      departure_datetime |-> JStr(f[4]),
                      arrival_datetime |-> JStr(f[5]),
                      price |-> JFloat(ParseFloat(f[6]))],
          errors |-> << >>]

\* CheckFields without the early return of line 46.
CheckFields_NoEarlyReturn(f, presence) ==
    Verdict(f, presence \o FormatErrors(f))

\* Lines 30-99, on the six trimmed fields f with their presence defects:
\* the format checks run only when no field is blank.
CheckFields(f, presence) ==
    IF presence # << >> THEN Invalid(presence)
    ELSE Verdict(f, FormatErrors(f))

\* validate_flight_row(fields): (is_valid, flight, errors).
validate_flight_row(fields) ==
    IF Len(fields) < 6 THEN Invalid(<< "missing required fields" >>)
    ELSE CheckFields([i \in 1..6 |-> Strip(fields[i])],
                     PresenceErrors([i \in 1..6 |-> Strip(fields[i])]))

(***************************************************************************)
(* str(value), as the matcher and a re-validation apply it.                *)
(***************************************************************************)
PyStr(v) ==
    CASE v.t = "str" -> v.s
      [] v.t = "float" -> FloatStr(v.f)
      [] v.t = "int" -> IntStr(v.i)
      [] v.t = "none" -> <<"N", "o", "n", "e">>

(***************************************************************************)
(* The state: one group of variables for each component.                   *)
(***************************************************************************)
VARIABLES
    row,            \* validator: the raw fields of one row
    result,         \* validator: what validate_flight_row returned for row
    again,          \* validator: what it returned for the record fed back
    vpc,            \* validator: "start", "validated", "revalidated"
    source,         \* ingestor: the lines of the file being read
    line_num,       \* ingestor: the number of the last line read
    valid_flights,  \* ingestor: the records accepted so far
    error_lines,    \* ingestor: the error entries written so far
    folder,         \* folder: whether it is a directory, and its files
    listing,        \* folder: the names in the order os.listdir gives them
    pending,        \* folder: the sorted names still to be visited
    all_valid,      \* folder: the records of the files parsed so far
    all_errors,     \* folder: the error entries of the files parsed so far
    fpc,            \* folder: "start", "loop", "done", "raised"
    query,          \* matcher: the query
    flight,         \* matcher: the record
    matched,        \* matcher: what match_query_on_flight returned
    mpc,            \* matcher: "start", "matched"
    db,             \* runner: the records
    queries,        \* runner: the batch of queries
    responses,      \* runner: the results so far
    qpc             \* runner: "loop", "returned"

validatorVars == << row, result, again, vpc >>

ingestVars == << source, line_num, valid_flights, error_lines >>

folderVars == << folder, listing, pending, all_valid, all_errors, fpc >>

matcherVars == << query, flight, matched, mpc >>

runnerVars == << db, queries, responses, qpc >>

vars == << validatorVars, ingestVars, folderVars, matcherVars, runnerVars >>

(***************************************************************************)
(* Texts the inputs are drawn from.                                        *)
(***************************************************************************)
Day0301 == <<"2", "0", "2", "4", "-", "0", "3", "-", "0", "1">>

Dt(date, hh, mm) == date \o << " " >> \o hh \o << ":" >> \o mm

At0900 == Dt(Day0301, <<"0", "9">>, <<"0", "0">>)

At1000 == Dt(Day0301, <<"1", "0">>, <<"0", "0">>)

At1400 == Dt(Day0301, <<"1", "4">>, <<"0", "0">>)

\* 2024-3-1 9:5: no zero padding, which strptime accepts
Unpadded == <<"2", "0", "2", "4", "-", "3", "-", "1", " ", "9", ":", "5">>

\* 2024-02-30 10:00: a day that does not exist
Feb30 == Dt(<<"2", "0", "2", "4", "-", "0", "2", "-", "3", "0">>,
            <<"1", "0">>, <<"0", "0">>)

FlightIdInputs ==
    { <<"A", "B", "1", "2">>, <<"A", "1">>, <<"A">>,
      <<"A", "B", "C", "D", "E", "F", "G", "H", "I">>,
      <<"A", "B", "-", "1">>, << >>, <<" ", "A", "B", "1", "2">> }

OriginInputs ==
    { <<"J", "F", "K">>, <<"j", "f", "k">>, <<"A", "U+4E2D", "B">>,
      <<"J", "F">>, <<" ">> }

DestinationInputs == { <<"L", "A", "X">>, <<"L", "1", "X">>, << >> }

DepartureInputs == { At1000, Unpadded, Feb30, << >> }

ArrivalInputs == { At1400, At0900, At1000, <<"s", "o", "o", "n">>, << >> }

PriceInputs ==
    { <<"2", "5", "0", ".", "5">>, <<"-", "5">>, <<"0">>,
      <<"-", "0", ".", "0">>, <<"a", "b", "c">>, <<"n", "a", "n">>,
      <<"i", "n", "f">>, <<"1", "e", "4", "0", "0">>, <<"3", "e", "9">>,
      <<"1", "0", "0">>, << >> }

\* The most columns a row has beyond the six that are read.
MaxExtra == 1

ExtraColumn == <<"x">>

\* The columns a row can have: the six that are read, then the extra ones.
Columns(a, b, c, d, e, f) ==
    << a, b, c, d, e, f >> \o [i \in 1..MaxExtra |-> ExtraColumn]

(***************************************************************************)
(* The validator, driven on one row: validate it, then feed the record it  *)
(* returned back as strings.                                               *)
(***************************************************************************)
NoResult == Invalid(<< >>)

\* The groups of variables a specification does not use stay at these values.
ValidatorIdle ==
    row = << >> /\ result = NoResult /\ again = NoResult /\ vpc = "idle"

IngestIdle ==
    /\ source = << >> /\ line_num = 0
    /\ valid_flights = << >> /\ error_lines = << >>

FolderIdle ==
    /\ folder = [is_dir |-> FALSE, files |-> EmptyDict]
    /\ listing = << >> /\ pending = << >>
    /\ all_valid = << >> /\ all_errors = << >> /\ fpc = "idle"

MatcherIdle ==
    query = EmptyDict /\ flight = EmptyDict /\ matched = FALSE /\ mpc = "idle"

RunnerIdle ==
    db = << >> /\ queries = << >> /\ responses = << >> /\ qpc = "idle"

\* A row is the first k columns, for any k: too short, exact, or too long.
InitValidate ==
    /\ \E a \in FlightIdInputs, b \in OriginInputs, c \in DestinationInputs,
          d \in DepartureInputs, e \in ArrivalInputs, f \in PriceInputs,
          k \in 0..(6 + MaxExtra) :
            row = SubSeq(Columns(a, b, c, d, e, f), 1, k)
    /\ result = NoResult /\ again = NoResult /\ vpc = "start"
    /\ IngestIdle /\ FolderIdle /\ MatcherIdle /\ RunnerIdle

Validate ==
    /\ vpc = "start"
    /\ result' = validate_flight_row(row)
    /\ vpc' = "validated"
    /\ UNCHANGED << row, again, ingestVars, folderVars, matcherVars, runnerVars >>

\* The six fields of a record, as strings (the price through str()).
Refeed(record) ==
    << PyStr(record.flight_id), PyStr(record.origin), PyStr(record.destination),
       PyStr(record.departure_datetime), PyStr(record.arrival_datetime),
       PyStr(record.price) >>

Revalidate ==
    /\ vpc = "validated"
    /\ result.is_valid
    /\ again' = validate_flight_row(Refeed(result.flight))
    /\ vpc' = "revalidated"
    /\ UNCHANGED << row, result, ingestVars, folderVars, matcherVars,
                   runnerVars >>

NextValidate == Validate \/ Revalidate

SpecValidate == InitValidate /\ [][NextValidate]_vars

(***************************************************************************)
(* parse_csv_file.  A file is the sequence of its raw lines, each ending   *)
(* with "\n" but possibly the last.  An error entry is the sequence of the *)
(* pieces of text the f-string joins; "U+2192" is the arrow.               *)
(***************************************************************************)
\* flight_id,origin,destination
HeaderPrefix ==
    <<"f", "l", "i", "g", "h", "t", "_", "i", "d", ",",
      "o", "r", "i", "g", "i", "n", ",",
      "d", "e", "s", "t", "i", "n", "a", "t", "i", "o", "n">>

\* raw_line.rstrip("\n")
RStripNewline(raw) == SubSeq(raw, 1, LastNotIn(raw, {"\n"}))

\* ", ".join(messages)
RECURSIVE Join(_)
Join(messages) ==
    IF Len(messages) <= 1 THEN messages
    ELSE << Head(messages), ", " >> \o Join(Tail(messages))

\* f"Line {line_num}: {line} -> {reason}"
ErrorEntry(n, line, reason) ==
    << "Line " >> \o IntStr(n) \o << ": " >> \o line
        \o << " ", "U+2192", " " >> \o reason

CommentNote == << "comment line, ignored for data parsing" >>

\* IsHeaderLine with the test on the line number left out.
IsHeaderLine_AnyLine(n, stripped) == StartsWith(Lower(stripped), HeaderPrefix)

\* Line 121: the header is recognised on line 1 only, on the trimmed text.
IsHeaderLine(n, stripped) ==
    n = 1 /\ StartsWith(Lower(stripped), HeaderPrefix)

\* Line 131: the fields of a line, each trimmed.
StripAll(fields) == [i \in 1..Len(fields) |-> Strip(fields[i])]

\* Lines 133-139: the record of a valid row, or the error entry of its defects.
Record(acc, n, line, v) ==
    IF v.is_valid
    THEN [acc EXCEPT !.valid_flights = Append(@, v.flight)]
    ELSE [acc EXCEPT !.error_lines = Append(@, ErrorEntry(n, line, Join(v.errors)))]

\* Lines 116-139 on line number n: its text and the text trimmed.
Dispatch(acc, n, line, stripped) ==
    IF stripped = << >> THEN acc
    ELSE IF IsHeaderLine(n, stripped) THEN acc
    ELSE IF StartsWith(stripped, << "#" >>)
         THEN [acc EXCEPT !.error_lines = Append(@, ErrorEntry(n, line, CommentNote))]
    ELSE Record(acc, n, line, validate_flight_row(StripAll(Split(line, ","))))

\* One turn of the loop of lines 112-139.
ProcessLine(acc, n, raw) ==
    Dispatch(acc, n, RStripNewline(raw), Strip(RStripNewline(raw)))

\* Lines 107-108
NothingParsed == [valid_flights |-> << >>, error_lines |-> << >>]

\* The loop of lines 112-139 from line n on.
RECURSIVE ParseLines(_, _, _)
ParseLines(acc, lines, n) ==
    IF n > Len(lines) THEN acc
    ELSE ParseLines(ProcessLine(acc, n, lines[n]), lines, n + 1)

\* parse_csv_file on a file: status "ok", "unreadable" (open raises OSError,
\* FileNotFoundError included: caught on lines 140-143) or "undecodable" (the
\* content is not UTF-8: the first read raises UnicodeDecodeError, a
\* ValueError, which no except clause catches).
parse_csv_file(file) ==
    IF file.status = "undecodable"
    THEN [raised |-> TRUE, valid_flights |-> << >>, error_lines |-> << >>]
    ELSE IF file.status = "unreadable"
    THEN [raised |-> FALSE, valid_flights |-> << >>, error_lines |-> << >>]
    ELSE [raised |-> FALSE,
          valid_flights |-> ParseLines(NothingParsed, file.lines, 1).valid_flights,
          error_lines |-> ParseLines(NothingParsed, file.lines, 1).error_lines]

\* Lines of text.
HeaderLine ==
    <<"F", "l", "i", "g", "h", "t", "_", "I", "D", ",",
      "O", "r", "i", "g", "i", "n", ",",
      "D", "e", "s", "t", "i", "n", "a", "t", "i", "o", "n", ",",
      "d", "e", "p", ",", "a", "r", "r", ",", "p", "r", "i", "c", "e">>

IndentedHeaderLine == <<" ", " ">> \o HeaderPrefix

SpacesLine == <<" ", "\t", " ">>

CommentLine == <<"#", " ", "n", "o", "t", "e">>

IndentedCommentLine == <<" ", "#", "x">>

\* AB12,JFK,LAX,2024-03-01 10:00,2024-03-01 14:00,250.5
ValidLine ==
    <<"A", "B", "1", "2", ",", "J", "F", "K", ",", "L", "A", "X", ",">>
    \o At1000 \o << "," >> \o At1400 \o <<",", "2", "5", "0", ".", "5">>

\* The line A1,jfk,LAX,2024-03-01 10:00,2024-03-01 09:00,-5
LineA1 ==
    <<"A", "1", ",", "j", "f", "k", ",", "L", "A", "X", ",">>
    \o At1000 \o << "," >> \o At0900 \o <<",", "-", "5">>

ShortLine == <<"A", "B", "1", "2", ",", "J", "F", "K">>

LineInputs ==
    { HeaderLine, IndentedHeaderLine, << >>, SpacesLine, CommentLine,
      IndentedCommentLine, ValidLine, LineA1, ShortLine }

\* The raw lines of a file: every line ends with "\n", but the last may
\* lack it.
RawLineInputs ==
    { l \o << "\n" >> : l \in LineInputs } \cup { ValidLine }

\* The most lines a file has.
MaxLines == 3

SourceInputs ==
    UNION { { s \in [1..k -> RawLineInputs] :
                \A i \in 1..(k - 1) : s[i][Len(s[i])] = "\n" } : k \in 0..MaxLines }

InitIngest ==
    /\ source \in SourceInputs
    /\ line_num = 0 /\ valid_flights = << >> /\ error_lines = << >>
    /\ ValidatorIdle /\ FolderIdle /\ MatcherIdle /\ RunnerIdle

\* One turn of the loop of parse_csv_file: the next line of the file.
ReadLine ==
    /\ line_num < Len(source)
    /\ line_num' = line_num + 1
    /\ valid_flights' =
          ProcessLine([valid_flights |-> valid_flights, error_lines |-> error_lines],
                      line_num + 1, source[line_num + 1]).valid_flights
    /\ error_lines' =
          ProcessLine([valid_flights |-> valid_flights, error_lines |-> error_lines],
                      line_num + 1, source[line_num + 1]).error_lines
    /\ UNCHANGED << source, validatorVars, folderVars, matcherVars, runnerVars >>

NextIngest == ReadLine

SpecIngest == InitIngest /\ [][NextIngest]_vars

(***************************************************************************)
(* parse_csv_folder.  The folder is whether it is a directory and, file    *)
(* name by file name, the files in it; os.listdir lists them in any order. *)
(***************************************************************************)
\* The printable ASCII characters in code-point order, from 32 on (the
\* grave accent by its code point).
Ascii ==
    <<
      " ", "!", "\"", "#", "$", "%", "&", "'", "(", ")", "*", "+",
      ",", "-", ".", "/", "0", "1", "2", "3", "4", "5", "6", "7",
      "8", "9", ":", ";", "<", "=", ">", "?", "@", "A", "B", "C",
      "D", "E", "F", "G", "H", "I", "J", "K", "L", "M", "N", "O",
      "P", "Q", "R", "S", "T", "U", "V", "W", "X", "Y", "Z", "[",
      "\\", "]", "^", "_", "U+0060", "a", "b", "c", "d", "e", "f", "g",
      "h", "i", "j", "k", "l", "m", "n", "o", "p", "q", "r", "s",
      "t", "u", "v", "w", "x", "y", "z", "{", "|", "}", "~"
    >>

\* ord(c) - 31
CodePoint(c) == CHOOSE i \in 1..Len(Ascii) : Ascii[i] = c

\* a < b on strings: by code point at the first difference, a proper
\* prefix first.
StrLess(a, b) ==
    \E i \in 1..Len(b) :
        /\ i <= Len(a) + 1
        /\ SubSeq(a, 1, i - 1) = SubSeq(b, 1, i - 1)
        /\ i = Len(a) + 1 \/ CodePoint(a[i]) < CodePoint(b[i])

Least(names) == CHOOSE x \in names : \A y \in names \ {x} : StrLess(x, y)

\* sorted(names)
RECURSIVE Sorted(_)
Sorted(names) ==
    IF names = {} THEN << >>
    ELSE << Least(names) >> \o Sorted(names \ {Least(names)})

\* Line 159: sorted(os.listdir(folder))
ListingOrder(list) == Sorted({list[i] : i \in 1..Len(list)})

DotCsv == <<".", "c", "s", "v">>

\* Lines 155-159: not a directory: return nothing; else sort the listing.
ListFolder ==
    /\ fpc = "start"
    /\ IF folder.is_dir
       THEN pending' = ListingOrder(listing) /\ fpc' = "loop"
       ELSE pending' = << >> /\ fpc' = "done"
    /\ UNCHANGED << folder, listing, all_valid, all_errors >>
    /\ UNCHANGED << validatorVars, ingestVars, matcherVars, runnerVars >>

\* Lines 159-161: a name that does not end with .csv is passed over.
SkipName ==
    /\ fpc = "loop" /\ pending # << >>
    /\ ~EndsWith(Lower(Head(pending)), DotCsv)
    /\ pending' = Tail(pending)
    /\ UNCHANGED << folder, listing, all_valid, all_errors, fpc >>
    /\ UNCHANGED << validatorVars, ingestVars, matcherVars, runnerVars >>

\* Lines 162-165: the file is parsed and its results appended; an exception
\* parse_csv_file lets through ends parse_csv_folder.
ParseFile ==
    /\ fpc = "loop" /\ pending # << >>
    /\ EndsWith(Lower(Head(pending)), DotCsv)
    /\ IF parse_csv_file(folder.files[Head(pending)]).raised
       THEN /\ fpc' = "raised"
            /\ UNCHANGED << pending, all_valid, all_errors >>
       ELSE /\ all_valid' = all_valid
                \o parse_csv_file(folder.files[Head(pending)]).valid_flights
            /\ all_errors' = all_errors
                \o parse_csv_file(folder.files[Head(pending)]).error_lines
            /\ pending' = Tail(pending)
            /\ fpc' = fpc
    /\ UNCHANGED << folder, listing >>
    /\ UNCHANGED << validatorVars, ingestVars, matcherVars, runnerVars >>

\* Line 167
ReturnFolder ==
    /\ fpc = "loop" /\ pending = << >>
    /\ fpc' = "done"
    /\ UNCHANGED << folder, listing, pending, all_valid, all_errors >>
    /\ UNCHANGED << validatorVars, ingestVars, matcherVars, runnerVars >>

NameInputs ==
    { <<"a", ".", "c", "s", "v">>, <<"B", ".", "C", "S", "V">>,
      <<"b", ".", "c", "s", "v">>,
      <<"n", "o", "t", "e", "s", ".", "t", "x", "t">> }

Terminated(lines) == [i \in 1..Len(lines) |-> lines[i] \o << "\n" >>]

FileInputs ==
    { [status |-> "ok", lines |-> Terminated(<< HeaderLine, ValidLine, LineA1 >>)],
      [status |-> "ok", lines |-> Terminated(<< ShortLine, << >>, CommentLine >>)],
      [status |-> "unreadable", lines |-> Terminated(<< ValidLine >>)],
      [status |-> "undecodable", lines |-> << >>] }

\* The most files the folder holds.
MaxFiles == 3

\* The orders in which a set of names can be listed.
Orderings(names) ==
    { p \in [1..Cardinality(names) -> names] :
        \A i, j \in 1..Cardinality(names) : i # j => p[i] # p[j] }

InitFolder ==
    /\ \E names \in SUBSET NameInputs :
          /\ Cardinality(names) <= MaxFiles
          /\ \E files \in [names -> FileInputs], dir \in BOOLEAN :
                folder = [is_dir |-> dir, files |-> files]
          /\ listing \in Orderings(names)
    /\ pending = << >> /\ all_valid = << >> /\ all_errors = << >>
    /\ fpc = "start"
    /\ ValidatorIdle /\ IngestIdle /\ MatcherIdle /\ RunnerIdle

NextFolder == ListFolder \/ SkipName \/ ParseFile \/ ReturnFolder

SpecFolder == InitFolder /\ [][NextFolder]_vars

(***************************************************************************)
(* match_query_on_flight.  A query and a flight are dicts of JSON values.  *)
(***************************************************************************)
\* Lines 220-224: strptime of anything but a str raises TypeError.
parse_datetime_safe(v) == IF v.t = "str" THEN Strptime(v.s) ELSE NoDatetime

\* float(v): TypeError for None.
ToFloat(v) ==
    CASE v.t = "str" -> ParseFloat(v.s)
      [] v.t = "float" -> v.f
      [] v.t = "int" -> Normalise(v.i < 0, IF v.i < 0 THEN -v.i ELSE v.i, 0)
      [] v.t = "none" -> NoFloat

\* Line 233
StringKeyMatches(key, value, fl) == PyStr(Get(fl, key)) = PyStr(value)

\* The departure test with the bound exclusive.
DepartureOk_Strict(q_dt, f_dt) == q_dt.ok /\ f_dt.ok /\ DtLess(q_dt, f_dt)

\* Line 238: q_dt and f_dt and f_dt >= q_dt
DepartureOk(q_dt, f_dt) == q_dt.ok /\ f_dt.ok /\ DtLeq(q_dt, f_dt)

\* Line 243: q_dt and f_dt and f_dt <= q_dt
ArrivalOk(q_dt, f_dt) == q_dt.ok /\ f_dt.ok /\ DtLeq(f_dt, q_dt)

\* Lines 246-252: no match if either float() raised or f_price > q_price.
PriceOk(q_price, f_price) ==
    /\ q_price.k # "err" /\ f_price.k # "err"
    /\ ~FloatLess(q_price, f_price)

\* Lines 232-254: the test of one key of the query; an unknown key passes.
KeyMatches(key, value, fl) ==
    CASE key \in {"flight_id", "origin", "destination"} ->
            StringKeyMatches(key, value, fl)
      [] key = "departure_datetime" ->
            DepartureOk(parse_datetime_safe(JStr(PyStr(value))),
                        parse_datetime_safe(Get(fl, "departure_datetime")))
      [] key = "arrival_datetime" ->
            ArrivalOk(parse_datetime_safe(JStr(PyStr(value))),
                      parse_datetime_safe(Get(fl, "arrival_datetime")))
      [] key = "price" ->
            PriceOk(ToFloat(value), ToFloat(Get(fl, "price")))
      [] OTHER -> TRUE

\* Lines 231-256: False at the first key that fails, True if none does.
match_query_on_flight(q, fl) ==
    \A key \in DOMAIN q : KeyMatches(key, q[key], fl)

\* Lines 227-256
Match ==
    /\ mpc = "start"
    /\ matched' = match_query_on_flight(query, flight)
    /\ mpc' = "done"
    /\ UNCHANGED << query, flight >>
    /\ UNCHANGED << validatorVars, ingestVars, folderVars, runnerVars >>

Text12 == <<"1", "2">>
TextAB12 == <<"A", "B", "1", "2">>
TextJFK == <<"J", "F", "K">>
TextLAX == <<"L", "A", "X">>
TextNone == <<"N", "o", "n", "e">>
TextAbc == <<"a", "b", "c">>

Price100 == Normalise(FALSE, 100, 0)
Price9999 == Normalise(FALSE, 9999, -2)
Price2505 == Normalise(FALSE, 2505, -1)

\* A dict from the values chosen for its keys, a key left out where the
\* choice is "absent".
Absent == [t |-> "absent", s |-> << >>, f |-> NoFloat, i |-> 0]

DictOf(choice) ==
    [key \in {k \in DOMAIN choice : choice[k] # Absent} |-> choice[key]]

QueryChoices ==
    [flight_id : {Absent, JStr(TextAB12), JStr(TextNone), JInt(12)},
     origin : {Absent, JStr(TextJFK), JStr(TextLAX)},
     destination : {Absent, JStr(TextLAX)},
     departure_datetime : {Absent, JStr(At0900), JStr(At1000), JStr(Unpadded),
                           JStr(TextAbc)},
     arrival_datetime : {Absent, JStr(At1400), JStr(At1000), JInt(12)},
     price : {Absent, JFloat(Price100), JInt(100),
              JStr(<<"9", "9", ".", "9", "9">>), JStr(TextAbc), JNone,
              JFloat(NaN), JFloat(Inf(FALSE))},
     airline : {Absent, JStr(TextAbc)}]

\* A record as validate_flight_row builds it.
FlightRecord(flight_id, dep, arr, price) ==
    [flight_id |-> JStr(flight_id), origin |-> JStr(TextJFK),
     destination |-> JStr(TextLAX), departure_datetime |-> JStr(dep),
     arrival_datetime |-> JStr(arr), price |-> JFloat(price)]

\* Records of the validator, and the looser objects a JSON database holds.
FlightInputs ==
    { FlightRecord(TextAB12, At0900, At1400, Price100),
      FlightRecord(TextAB12, At1000, At1400, Price2505),
      FlightRecord(Text12, At0900, At1000, NaN),
      [flight_id |-> JInt(12), destination |-> JStr(TextLAX),
       departure_datetime |-> JStr(Unpadded), arrival_datetime |-> JNone,
       price |-> JStr(<<"1", "0", "0">>)],
      [flight_id |-> JStr(TextAB12), origin |-> JStr(TextJFK),
       price |-> JNone],
      EmptyDict }

InitMatch ==
    /\ \E choice \in QueryChoices : query = DictOf(choice)
    /\ flight \in FlightInputs
    /\ matched = FALSE /\ mpc = "start"
    /\ ValidatorIdle /\ IngestIdle /\ FolderIdle /\ RunnerIdle

NextMatch == Match

SpecMatch == InitMatch /\ [][NextMatch]_vars

(***************************************************************************)
(* run_queries                                                             *)
(***************************************************************************)
\* Every record, matching or not.
Matches_All(records, q) == records

\* Line 262: [flight for flight in db if match_query_on_flight(q, flight)]
Matches(records, q) ==
    SelectSeq(records, LAMBDA fl : match_query_on_flight(q, fl))

\* Lines 261-266: the next query, in order, and its response appended.
RunQuery ==
    /\ qpc = "loop" /\ Len(responses) < Len(queries)
    /\ responses' = Append(responses,
            [query |-> queries[Len(responses) + 1],
             matches |-> Matches(db, queries[Len(responses) + 1])])
    /\ UNCHANGED << db, queries, qpc >>
    /\ UNCHANGED << validatorVars, ingestVars, folderVars, matcherVars >>

\* Line 267
ReturnResponses ==
    /\ qpc = "loop" /\ Len(responses) = Len(queries)
    /\ qpc' = "done"
    /\ UNCHANGED << db, queries, responses >>
    /\ UNCHANGED << validatorVars, ingestVars, folderVars, matcherVars >>

\* The most records of the database, and the most queries of a run.
MaxDb == 2
MaxQueries == 2

DbInputs ==
    { FlightRecord(TextAB12, At0900, At1400, Price100),
      FlightRecord(TextAB12, At1000, At1400, Price2505),
      FlightRecord(Text12, At0900, At1000, Price9999) }

QueryInputs ==
    { EmptyDict,
      [price |-> JFloat(Price100)],
      [flight_id |-> JStr(TextAB12), departure_datetime |-> JStr(At1000)],
      [origin |-> JStr(TextLAX)] }

SeqsUpTo(S, n) == UNION {[1..k -> S] : k \in 0..n}

InitQuery ==
    /\ db \in SeqsUpTo(DbInputs, MaxDb)
    /\ queries \in SeqsUpTo(QueryInputs, MaxQueries)
    /\ responses = << >> /\ qpc = "loop"
    /\ ValidatorIdle /\ IngestIdle /\ FolderIdle /\ MatcherIdle

NextQuery == RunQuery \/ ReturnResponses

SpecQuery == InitQuery /\ [][NextQuery]_vars

(***************************************************************************)
(* Properties of the validator.                                            *)
(***************************************************************************)
Validated == vpc \in {"validated", "revalidated"}

\* Blank after trimming: nothing but whitespace.
IsBlank(field) == \A i \in 1..Len(field) : field[i] \in Whitespace

\* The constraints of the data model on a record.
FlightIdInvariant(flight_id) ==
    /\ 2 <= Len(flight_id) /\ Len(flight_id) <= 8
    /\ \A i \in 1..Len(flight_id) : flight_id[i] \in AlphaChars \cup Digits

CodeInvariant(code) ==
    Len(code) = 3 /\ \A i \in 1..3 : code[i] \in UpperChars

TimesInvariant(dep, arr) ==
    Strptime(dep).ok /\ Strptime(arr).ok /\ DtLess(Strptime(dep), Strptime(arr))

PriceInvariant(price) ==
    price.t = "float" /\ price.f.k = "num" /\ ~price.f.neg /\ price.f.m > 0

\* C1: a record returned as valid has a flight_id of 2 to 8 alphanumeric
\* characters, an origin and a destination of 3 upper-case letters, two
\* datetimes that parse with the arrival after the departure, and a price
\* that is a real number greater than 0.
C1_ValidRecordInvariants ==
    (Validated /\ result.is_valid) =>
        /\ FlightIdInvariant(result.flight.flight_id.s)
        /\ CodeInvariant(result.flight.origin.s)
        /\ CodeInvariant(result.flight.destination.s)
        /\ TimesInvariant(result.flight.departure_datetime.s,
                          result.flight.arrival_datetime.s)
        /\ PriceInvariant(result.flight.price)

MissingMessage ==
    << "missing flight_id field", "missing origin field",
       "missing destination field", "missing departure_datetime field",
       "missing arrival_datetime field", "missing price field" >>

BlankFields(r) == {i \in 1..6 : IsBlank(r[i])}

\* The k-th least element of a set of numbers.
KthLeast(S, k) == CHOOSE i \in S : Cardinality({j \in S : j < i}) = k - 1

\* C2: a row of at least six fields with a blank one among the first six is
\* invalid, and its defects are one "missing <field> field" for each blank
\* field, in field order, and nothing else.
C2_PresenceShortCircuit ==
    (Validated /\ Len(row) >= 6 /\ BlankFields(row) # {}) =>
        /\ ~result.is_valid
        /\ result.flight = EmptyDict
        /\ result.errors =
              [k \in 1..Cardinality(BlankFields(row)) |->
                  MissingMessage[KthLeast(BlankFields(row), k)]]

\* C2's case: two blank fields beside a field whose format is wrong.
C2_Witness ==
    /\ vpc = "validated" /\ Len(row) >= 6
    /\ BlankFields(row) = {1, 6}
    /\ ~CodeOk(Strip(row[2]))
    /\ Len(result.errors) = 2

\* The place of each format defect in the fixed order of the checks.
DefectRank(msg) ==
    CASE msg = "flight_id too long (more than 8 characters)" -> 1
      [] msg = "flight_id must be 2-8 alphanumeric characters" -> 1
      [] msg = "invalid origin code" -> 2
      [] msg = "invalid destination code" -> 3
      [] msg = "invalid departure datetime" -> 4
      [] msg = "invalid arrival datetime" -> 5
      [] msg = "arrival before departure" -> 6
      [] msg = "invalid price value" -> 7
      [] msg = "negative price value" -> 7
      [] msg = "non-positive price value" -> 7
      [] OTHER -> 0

Has(errors, msg) == \E i \in 1..Len(errors) : errors[i] = msg

\* The defects of a row whose six fields are f after trimming, none blank.
AccumulatedDefects(f, errors) ==
    /\ \A i \in 1..Len(errors) : DefectRank(errors[i]) > 0
    /\ \A i \in 1..(Len(errors) - 1) :
          DefectRank(errors[i]) < DefectRank(errors[i + 1])
    /\ Has(errors, "flight_id too long (more than 8 characters)")
          <=> Len(f[1]) > 8
    /\ Has(errors, "flight_id must be 2-8 alphanumeric characters")
          <=> (Len(f[1]) < 2 \/ (Len(f[1]) <= 8 /\ ~IsAlnum(f[1])))
    /\ Has(errors, "invalid origin code") <=> ~CodeOk(f[2])
    /\ Has(errors, "invalid destination code") <=> ~CodeOk(f[3])
    /\ Has(errors, "invalid departure datetime") <=> ~Strptime(f[4]).ok
    /\ Has(errors, "invalid arrival datetime") <=> ~Strptime(f[5]).ok
    /\ Has(errors, "arrival before departure")
          <=> /\ Strptime(f[4]).ok /\ Strptime(f[5]).ok
              /\ ~DtLess(Strptime(f[4]), Strptime(f[5]))
    /\ Has(errors, "invalid price value") <=> ParseFloat(f[6]).k = "err"
    /\ Has(errors, "negative price value")
          <=> FloatLess(ParseFloat(f[6]), Zero)
    /\ Has(errors, "non-positive price value")
          <=> FloatEq(ParseFloat(f[6]), Zero)

\* C3: for a row of at least six fields, none blank, the defects are all the
\* defects that apply, each once, in the order flight_id, origin,
\* destination, departure, arrival, arrival-before-departure, price; the
\* row is valid exactly when there is none.
C3_AccumulateAll ==
    (Validated /\ Len(row) >= 6 /\ BlankFields(row) = {}) =>
        /\ AccumulatedDefects([i \in 1..6 |-> Strip(row[i])], result.errors)
        /\ result.is_valid <=> result.errors = << >>

\* C3's case: a bad flight_id and a negative price in one row, more
\* defects between them.
C3_Witness ==
    /\ vpc = "validated" /\ Len(row) >= 6 /\ BlankFields(row) = {}
    /\ Len(result.errors) >= 4
    /\ DefectRank(result.errors[1]) = 1
    /\ result.errors[Len(result.errors)] = "negative price value"

\* errors holds the messages of wanted, in that order (others may come between).
RECURSIVE HasInOrder(_, _)
HasInOrder(errors, wanted) ==
    IF wanted = << >> THEN TRUE
    ELSE IF errors = << >> THEN FALSE
    ELSE IF Head(errors) = Head(wanted)
         THEN HasInOrder(Tail(errors), Tail(wanted))
    ELSE HasInOrder(Tail(errors), wanted)

\* C4 as stated: the line above is invalid and its defects include, in this
\* order, a flight_id defect (too short), invalid origin code, arrival
\* before departure and negative price value.
C4_AsStated ==
    (Validated /\ row = Split(LineA1, ",")) =>
        /\ ~result.is_valid
        /\ HasInOrder(result.errors,
                      << "flight_id must be 2-8 alphanumeric characters",
                         "invalid origin code", "arrival before departure",
                         "negative price value" >>)

\* C4, amended: the line above is invalid with exactly three defects, in
\* this order: invalid origin code, arrival before departure, negative
\* price value.  "A1" has two alphanumeric characters: no flight_id defect.
C4_LineA1Defects ==
    (Validated /\ row = Split(LineA1, ",")) =>
        /\ ~result.is_valid
        /\ result.errors = << "invalid origin code", "arrival before departure",
                              "negative price value" >>

\* C4's case: the line has been split and validated.
C4_Witness == vpc = "validated" /\ row = Split(LineA1, ",")

\* a == b on two values of a record: strings by ==, floats by float ==.
ValueEq(a, b) ==
    /\ a.t = b.t
    /\ a.t = "str" => a.s = b.s
    /\ a.t = "float" => FloatEq(a.f, b.f)
    /\ a.t = "int" => a.i = b.i

FlightKeys ==
    {"flight_id", "origin", "destination", "departure_datetime",
     "arrival_datetime", "price"}

\* C10: a record returned as valid, fed back as six strings, is valid again
\* with no defect and an equal record, field by field.
C10_Revalidation ==
    vpc = "revalidated" =>
        /\ again.is_valid
        /\ again.errors = << >>
        /\ DOMAIN again.flight = FlightKeys
        /\ \A key \in FlightKeys :
              ValueEq(again.flight[key], result.flight[key])

(***************************************************************************)
(* Properties of the ingestor.                                             *)
(***************************************************************************)
\* The entry e is that of line n with text `text`: "Line n: text", the
\* arrow, then something.
EntryOfLine(e, n, text) ==
    /\ StartsWith(e, << "Line " >> \o IntStr(n) \o << ": " >> \o text
                       \o << " ", "U+2192", " " >>)
    /\ Len(e) > Len(text) + Len(IntStr(n)) + 5

NoOutput == valid_flights' = valid_flights /\ error_lines' = error_lines

OneErrorEntry(n, text) ==
    /\ valid_flights' = valid_flights
    /\ Len(error_lines') = Len(error_lines) + 1
    /\ SubSeq(error_lines', 1, Len(error_lines)) = error_lines
    /\ EntryOfLine(error_lines'[Len(error_lines')], n, text)

OneRecord(record) ==
    /\ valid_flights' = Append(valid_flights, record)
    /\ error_lines' = error_lines

\* What reading line n, of text `text`, appends, given whether the line
\* counts as the header.
LineOutcome(isHeader, n, text) ==
    IF IsBlank(text) THEN NoOutput
    ELSE IF isHeader THEN NoOutput
    ELSE IF Strip(text)[1] = "#" THEN OneErrorEntry(n, text)
    ELSE IF validate_flight_row(StripAll(Split(text, ","))).is_valid
         THEN OneRecord(validate_flight_row(StripAll(Split(text, ","))).flight)
    ELSE OneErrorEntry(n, text)

\* The text of line n of the file, without its newline.
TextOfLine(n) ==
    SubSeq(source[n], 1,
           IF source[n][Len(source[n])] = "\n" THEN Len(source[n]) - 1
           ELSE Len(source[n]))

\* C8 as stated: each line read appends what its class dictates, the header
\* being line 1 when the line itself starts, in any case, with
\* flight_id,origin,destination.
C8_AsStated ==
    [][ line_num' = line_num + 1 =>
          LineOutcome(line_num' = 1
                        /\ StartsWith(Lower(TextOfLine(line_num')), HeaderPrefix),
                      line_num', TextOfLine(line_num')) ]_vars

\* C8, amended: each line read appends at most one output, the one its class
\* dictates: nothing for a whitespace-only line; nothing for line 1 when its
\* trimmed content starts, in any case, with flight_id,origin,destination
\* (on a later line the same text is data); one error entry for a line
\* whose trimmed content starts with #; for any other line one record if
\* the validator accepts it, else one error entry.  An entry carries the
\* physical line number, and records and entries are appended in line
\* order.
C8_LineOutcomes ==
    [][ line_num' = line_num + 1 =>
          LineOutcome(line_num' = 1
                        /\ StartsWith(Lower(Strip(TextOfLine(line_num'))),
                                      HeaderPrefix),
                      line_num', TextOfLine(line_num')) ]_vars

\* C8's case: a header, a blank line, then a bad row: its entry says line 3.
C8_Witness ==
    /\ line_num = 3 /\ Len(source) = 3
    /\ TextOfLine(1) = HeaderLine
    /\ IsBlank(TextOfLine(2))
    /\ TextOfLine(3) = LineA1
    /\ valid_flights = << >>
    /\ Len(error_lines) = 1
    /\ EntryOfLine(error_lines[1], 3, LineA1)

(***************************************************************************)
(* Properties of the folder ingestor.                                      *)
(***************************************************************************)
\* The names of the sources of the folder, in lexicographic order.
SourcesInOrder ==
    LET csv == {n \in DOMAIN folder.files : EndsWith(Lower(n), DotCsv)}
    IN  CHOOSE p \in Orderings(csv) :
            \A i, j \in 1..Len(p) : i < j => StrLess(p[i], p[j])

\* What one source contributes, its lines numbered from 1: nothing when it
\* cannot be read.
Contribution(file) ==
    IF file.status = "ok" THEN ParseLines(NothingParsed, file.lines, 1)
    ELSE NothingParsed

RECURSIVE ConcatValid(_)
ConcatValid(names) ==
    IF names = << >> THEN << >>
    ELSE Contribution(folder.files[Head(names)]).valid_flights
            \o ConcatValid(Tail(names))

RECURSIVE ConcatErrors(_)
ConcatErrors(names) ==
    IF names = << >> THEN << >>
    ELSE Contribution(folder.files[Head(names)]).error_lines
            \o ConcatErrors(Tail(names))

\* C9: ingesting a directory ends with the records and the error entries of
\* its sources concatenated in lexicographic order of source name, whatever
\* the order of the listing, line numbers restarting at 1 in each source; a
\* source that cannot be read contributes nothing and does not stop the
\* others from being ingested.
C9_FolderConcatenation ==
    (folder.is_dir /\ fpc \in {"done", "raised"}) =>
        /\ fpc = "done"
        /\ all_valid = ConcatValid(SourcesInOrder)
        /\ all_errors = ConcatErrors(SourcesInOrder)

(***************************************************************************)
(* Properties of the matcher.                                              *)
(***************************************************************************)
Answered == mpc = "done"

\* The timestamp a query value or a record value stands for, if any.
QueryTime(key) == Strptime(PyStr(query[key]))

RecordTime(key) ==
    IF Get(flight, key).t = "str" THEN Strptime(Get(flight, key).s)
    ELSE NoDatetime

\* The comparators of the keys other than price, for the keys the query has.
StringComparators ==
    \A key \in {"flight_id", "origin", "destination"} \cap DOMAIN query :
        PyStr(Get(flight, key)) = PyStr(query[key])

DepartureComparator ==
    "departure_datetime" \in DOMAIN query =>
        /\ QueryTime("departure_datetime").ok
        /\ RecordTime("departure_datetime").ok
        /\ ~DtLess(RecordTime("departure_datetime"),
                   QueryTime("departure_datetime"))

ArrivalComparator ==
    "arrival_datetime" \in DOMAIN query =>
        /\ QueryTime("arrival_datetime").ok
        /\ RecordTime("arrival_datetime").ok
        /\ ~DtLess(QueryTime("arrival_datetime"),
                   RecordTime("arrival_datetime"))

\* The price key passes, as far as the matcher is concerned.
PriceKeyPasses ==
    "price" \in DOMAIN query =>
        PriceOk(ToFloat(query["price"]), ToFloat(Get(flight, "price")))

\* C5: a record matches a query iff every recognised key of the query
\* satisfies its comparator: flight_id, origin and destination by equality
\* of the stringified values, departure_datetime iff both sides parse and the
\* record departs at or after the query's time, arrival_datetime iff both
\* sides parse and the record arrives at or before it (the price key by the
\* price test, the subject of C6).  No other key has any say, so a query
\* with no recognised key matches every record.
C5_MatchIffComparators ==
    Answered =>
        /\ matched <=> /\ StringComparators
                       /\ DepartureComparator
                       /\ ArrivalComparator
                       /\ PriceKeyPasses
        /\ DOMAIN query \cap FlightKeys = {} => matched

\* A query with an unknown key and a departure bound equal to the record's
\* departure matches; so has a query of the unknown key alone.
C5_Witness ==
    /\ Answered /\ matched
    /\ DOMAIN query = {"airline", "departure_datetime", "flight_id"}
    /\ query["departure_datetime"] = Get(flight, "departure_datetime")
    /\ query["flight_id"] = JInt(12) /\ Get(flight, "flight_id") = JStr(Text12)

\* a <= b on floats.
FloatLeq(a, b) == FloatLess(a, b) \/ FloatEq(a, b)

\* Both prices parse and the record's is at most the query's.
PriceWithinBudget ==
    /\ ToFloat(query["price"]).k # "err"
    /\ ToFloat(Get(flight, "price")).k # "err"
    /\ FloatLeq(ToFloat(Get(flight, "price")), ToFloat(query["price"]))

\* C6: for a query with a price key, the record matches iff its other
\* comparators hold and both prices parse as numbers with the record's price
\* at most the query's; a price that does not parse on either side means no
\* match whatever the other keys.
C6_PriceCeiling ==
    (Answered /\ "price" \in DOMAIN query) =>
        (matched <=> /\ StringComparators
                     /\ DepartureComparator
                     /\ ArrivalComparator
                     /\ PriceWithinBudget)

(***************************************************************************)
(* Properties of the query runner.                                         *)
(***************************************************************************)
\* The positions of the records of db that match q.
MatchingPositions(q) ==
    {i \in 1..Len(db) : match_query_on_flight(q, db[i])}

\* found is the records of db that match q, each once, in the order of db.
IsMatchingSubsequence(found, q) ==
    /\ Len(found) = Cardinality(MatchingPositions(q))
    /\ \A k \in 1..Len(found) : found[k] = db[KthLeast(MatchingPositions(q), k)]

\* C7: run_queries returns one result for each query, in the order of the
\* queries, the i-th pairing the i-th query with exactly the records of the
\* database that match it, in database order; and no step of the run
\* changes the database (or the queries).
C7_OneResultPerQuery ==
    /\ [](/\ Len(responses) <= Len(queries)
          /\ qpc = "done" => Len(responses) = Len(queries)
          /\ \A i \in 1..Len(responses) :
                /\ responses[i].query = queries[i]
                /\ IsMatchingSubsequence(responses[i].matches, queries[i]))
    /\ [][db' = db /\ queries' = queries]_vars

\* A run of two queries over two records: the first query keeps both, in
\* order, the second only the second record.
C7_Witness ==
    /\ qpc = "done" /\ Len(queries) = 2 /\ Len(db) = 2
    /\ queries[1] = EmptyDict /\ queries[2] = [price |-> JFloat(Price100)]
    /\ db[1] = FlightRecord(TextAB12, At1000, At1400, Price2505)
    /\ db[2] = FlightRecord(Text12, At0900, At1000, Price9999)
    /\ responses[1].matches = db
    /\ responses[2].matches = << db[2] >>

=============================================================================
